---- MODULE Spec2Model ----
(***************************************************************************)
(* Model of the grid/coordinate geometry library, aoc/src/grid.rs:         *)
(* Coordinate, Line/LineIter, Square and Grid<T>.                          *)
(*                                                                         *)
(* Lines, squares and grids are drawn from small windows of i32 in which   *)
(* none of the additions and subtractions of the code overflows, so their  *)
(* arithmetic (add, sub, closest, offset, manhattan_distance) is integer   *)
(* arithmetic.  The Coordinate methods are also modelled over the whole    *)
(* range of a scaled-down i32 (add_i32, sub_i32, closest_i32, ...), where  *)
(* an operation that overflows panics in a build with overflow checks and  *)
(* wraps in a build without.                                               *)
(*                                                                         *)
(* Spec       : one Grid<T>, built by from_coords and then driven by any   *)
(*              sequence of its public methods.                            *)
(* LineSpec   : one LineIter, built by Line::coords and driven by next().  *)
(* SquareSpec : one call of Square::coords.                                *)
(* AreaSpec   : one call of Grid::coords_in_area.                          *)
(* CoordSpec  : one call of a Coordinate method on any i32 values.         *)
(* LineI32Spec: one LineIter between any two i32 coordinates, either      *)
(*              build, driven by next().                                   *)
(***************************************************************************)
EXTENDS Integers, Sequences, FiniteSets, TLC

VARIABLES
    grid,   \* the Grid<T> struct: points, start, end, width, height, empty
    ctor,   \* the arguments from_coords was called with
    log,    \* the writes that succeeded so far, oldest first
    prev,   \* the grid as it was when the last call was made
    ret,    \* the last call on the grid: method, arguments, returned value
    calls,  \* number of calls made on the grid
    line,   \* the Line that coords() consumed
    iter,   \* the LineIter struct: first, current, end
    out,    \* the items next() has yielded so far, in order
    last,   \* what the latest next() returned: "Some", "None", or "-" before any call
    input,  \* the receiver and arguments of a call of a pure method
    output, \* what that call returned: None before the call, Some(value) after it
    overflow_checks \* whether the build panics on integer overflow (debug) or wraps (release)

vars == <<grid, ctor, log, prev, ret, calls, line, iter, out, last,
          input, output, overflow_checks>>
gridVars == <<grid, ctor, log, prev, ret, calls>>
lineVars == <<line, iter, out, last>>
pureVars == <<input, output, overflow_checks>>

(***************************************************************************)
(* Bounds of the model.                                                    *)
(***************************************************************************)
\* grid coordinates have both components in 0..MaxCoord
MaxCoord == 2
\* at most MaxCalls method calls are made on a grid
MaxCalls == 2
\* line end points have both components in 0..MaxLineCoord
MaxLineCoord == 4
\* corners of squares range over 0..MaxSquareCoord on both axes
MaxSquareCoord == 3
\* coords_in_area is called with distances 0..MaxDistance
MaxDistance == 2
\* the integer width, scaled down: i32 is I32Min..I32Max with I32Min = -I32Max - 1
\* and u32 is 0..U32Max with U32Max = 2 * I32Max + 1, as for 32 bits
I32Max == 3

\* the cell values T ranges over
Values == {"a", "b"}
\* the closures coords_in_area is called with, by name
Filters == {"true", "false", "x_even"}

(***************************************************************************)
(* Coordinate                                                              *)
(***************************************************************************)
Coordinate(x, y) == [x |-> x, y |-> y]

Coords == {Coordinate(x, y) : x \in 0..MaxCoord, y \in 0..MaxCoord}
SquareCorners == {Coordinate(x, y) : x \in 0..MaxSquareCoord, y \in 0..MaxSquareCoord}
LineCoords == {Coordinate(x, y) : x \in 0..MaxLineCoord, y \in 0..MaxLineCoord}

\* i32::signum
signum(n) == IF n > 0 THEN 1 ELSE IF n < 0 THEN -1 ELSE 0

\* i32::abs
abs(n) == IF n < 0 THEN -n ELSE n

\* impl Sub for Coordinate
sub(self, rhs) == Coordinate(self.x - rhs.x, self.y - rhs.y)

\* impl Add for Coordinate
add(self, rhs) == Coordinate(self.x + rhs.x, self.y + rhs.y)

\* closest as it would be without signum: the whole difference is added
closest_no_signum(self, other) ==
    LET diff == sub(other, self)
    IN  Coordinate(self.x + diff.x, self.y + diff.y)

\* closest as it would be finishing the x axis before it touches the y axis
closest_x_before_y(self, other) ==
    LET diff == sub(other, self)
    IN  IF diff.x # 0
        THEN Coordinate(self.x + signum(diff.x), self.y)
        ELSE Coordinate(self.x, self.y + signum(diff.y))

\* Coordinate::closest
closest(self, other) ==
    LET diff == sub(other, self)
    IN  Coordinate(self.x + signum(diff.x), self.y + signum(diff.y))

\* Coordinate::offset
offset(self, xd, yd) == Coordinate(self.x + xd, self.y + yd)

\* i32::abs_diff
abs_diff(a, b) == IF a >= b THEN a - b ELSE b - a

\* Coordinate::manhattan_distance
manhattan_distance(self, other) ==
    LET xd == abs_diff(self.x, other.x)
        yd == abs_diff(self.y, other.y)
    IN  xd + yd

(***************************************************************************)
(* OverflowType, OutOfBounds, Result                                       *)
(***************************************************************************)
None == <<"None">>
Some(v) == <<"Some", v>>
Larger(b) == <<"Larger", b>>
Smaller(b) == <<"Smaller", b>>

\* OutOfBounds::new
OutOfBounds(coord, x_overflow, y_overflow) ==
    [coord |-> coord, x_overflow |-> x_overflow, y_overflow |-> y_overflow]

Ok(v) == <<"Ok", v>>
Err(e) == <<"Err", e>>
IsOk(r) == r[1] = "Ok"
IsErr(r) == r[1] = "Err"
Unit == "()"

(***************************************************************************)
(* BTreeMap<Coordinate, T> as a function on the set of its keys            *)
(***************************************************************************)
EmptyMap == [c \in {} |-> "a"]

\* BTreeMap::insert: adds the key or overwrites its value
insert(m, k, v) == [c \in (DOMAIN m) \cup {k} |-> IF c = k THEN v ELSE m[c]]

(***************************************************************************)
(* Grid<T>                                                                 *)
(***************************************************************************)
\* from_coords as it would be ordering its corners before storing them
from_coords_normalising(start, end, empty) ==
    LET diff == sub(end, start)
        lo == Coordinate(IF start.x <= end.x THEN start.x ELSE end.x,
                         IF start.y <= end.y THEN start.y ELSE end.y)
        hi == Coordinate(IF start.x <= end.x THEN end.x ELSE start.x,
                         IF start.y <= end.y THEN end.y ELSE start.y)
    IN  [points |-> insert(insert(EmptyMap, lo, empty), hi, empty),
         width  |-> abs(diff.x) + 1,
         start  |-> lo,
         end    |-> hi,
         height |-> abs(diff.y) + 1,
         empty  |-> empty]

\* Grid::from_coords
from_coords(start, end, empty) ==
    LET diff == sub(end, start)
    IN  [points |-> insert(insert(EmptyMap, start, empty), end, empty),
         width  |-> abs(diff.x) + 1,
         start  |-> start,
         end    |-> end,
         height |-> abs(diff.y) + 1,
         empty  |-> empty]

\* Grid::width
width(self) == self.width

\* Grid::height
height(self) == self.height

\* Grid::get
get(self, coord) ==
    IF coord \in DOMAIN self.points THEN self.points[coord] ELSE self.empty

\* set as it would be with an insert that keeps an existing entry
set_keeps_existing(self, coord, val) ==
    IF coord \in DOMAIN self.points
    THEN self
    ELSE [self EXCEPT !.points = insert(self.points, coord, val)]

\* Grid::set
set(self, coord, val) == [self EXCEPT !.points = insert(self.points, coord, val)]

\* check_bounds as it would be with >= for > (the end row and column rejected)
check_bounds_end_exclusive(self, coord) ==
    LET x_overflow == IF coord.x < self.start.x THEN Smaller(self.start.x)
                      ELSE IF coord.x >= self.end.x THEN Larger(self.end.x)
                      ELSE None
        y_overflow == IF coord.y < self.start.y THEN Smaller(self.start.y)
                      ELSE IF coord.y >= self.end.y THEN Larger(self.end.y)
                      ELSE None
    IN  IF x_overflow = None /\ y_overflow = None
        THEN Ok(Unit)
        ELSE Err(OutOfBounds(coord, x_overflow, y_overflow))

\* check_bounds as it would be reporting the coordinate's value for the bound
check_bounds_reports_coord(self, coord) ==
    LET x_overflow == IF coord.x < self.start.x THEN Smaller(coord.x)
                      ELSE IF coord.x > self.end.x THEN Larger(coord.x)
                      ELSE None
        y_overflow == IF coord.y < self.start.y THEN Smaller(coord.y)
                      ELSE IF coord.y > self.end.y THEN Larger(coord.y)
                      ELSE None
    IN  IF x_overflow = None /\ y_overflow = None
        THEN Ok(Unit)
        ELSE Err(OutOfBounds(coord, x_overflow, y_overflow))

\* Grid::check_bounds
check_bounds(self, coord) ==
    LET x_overflow == IF coord.x < self.start.x THEN Smaller(self.start.x)
                      ELSE IF coord.x > self.end.x THEN Larger(self.end.x)
                      ELSE None
        y_overflow == IF coord.y < self.start.y THEN Smaller(self.start.y)
                      ELSE IF coord.y > self.end.y THEN Larger(self.end.y)
                      ELSE None
    IN  IF x_overflow = None /\ y_overflow = None
        THEN Ok(Unit)
        ELSE Err(OutOfBounds(coord, x_overflow, y_overflow))

\* check_and_resize as it would be with the Larger and Smaller arms exchanged
check_and_resize_swapped(self, coord) ==
    LET r == check_bounds(self, coord)
    IN  IF IsErr(r)
        THEN LET e  == r[2]
                 g1 == IF e.x_overflow[1] = "Larger"
                       THEN [self EXCEPT !.start.x = coord.x]
                       ELSE IF e.x_overflow[1] = "Smaller"
                       THEN [self EXCEPT !.end.x = coord.x]
                       ELSE self
             IN  IF e.y_overflow[1] = "Larger"
                 THEN [g1 EXCEPT !.start.y = coord.y]
                 ELSE IF e.y_overflow[1] = "Smaller"
                 THEN [g1 EXCEPT !.end.y = coord.y]
                 ELSE g1
        ELSE self

\* check_and_resize as it would be moving both corners of an overflowing axis
check_and_resize_both_corners(self, coord) ==
    LET r == check_bounds(self, coord)
    IN  IF IsErr(r)
        THEN LET e  == r[2]
                 g1 == IF e.x_overflow[1] # "None"
                       THEN [self EXCEPT !.start.x = coord.x, !.end.x = coord.x]
                       ELSE self
             IN  IF e.y_overflow[1] # "None"
                 THEN [g1 EXCEPT !.start.y = coord.y, !.end.y = coord.y]
                 ELSE g1
        ELSE self

\* check_and_resize as it would be resizing only one axis per call
check_and_resize_one_axis(self, coord) ==
    LET r == check_bounds(self, coord)
    IN  IF IsErr(r)
        THEN LET e == r[2]
             IN  IF e.x_overflow[1] = "Larger"
                 THEN [self EXCEPT !.end.x = coord.x]
                 ELSE IF e.x_overflow[1] = "Smaller"
                 THEN [self EXCEPT !.start.x = coord.x]
                 ELSE IF e.y_overflow[1] = "Larger"
                 THEN [self EXCEPT !.end.y = coord.y]
                 ELSE [self EXCEPT !.start.y = coord.y]
        ELSE self

\* check_and_resize as it would be growing an overflowing axis by one step
check_and_resize_by_one(self, coord) ==
    LET r == check_bounds(self, coord)
    IN  IF IsErr(r)
        THEN LET e  == r[2]
                 g1 == IF e.x_overflow[1] = "Larger"
                       THEN [self EXCEPT !.end.x = self.end.x + 1]
                       ELSE IF e.x_overflow[1] = "Smaller"
                       THEN [self EXCEPT !.start.x = self.start.x - 1]
                       ELSE self
             IN  IF e.y_overflow[1] = "Larger"
                 THEN [g1 EXCEPT !.end.y = self.end.y + 1]
                 ELSE IF e.y_overflow[1] = "Smaller"
                 THEN [g1 EXCEPT !.start.y = self.start.y - 1]
                 ELSE g1
        ELSE self

\* check_and_resize as it would be shifting the rectangle instead of growing it
check_and_resize_shifting(self, coord) ==
    LET r == check_bounds(self, coord)
    IN  IF IsErr(r)
        THEN LET e  == r[2]
                 g1 == IF e.x_overflow[1] = "Larger"
                       THEN [self EXCEPT !.end.x = coord.x,
                                         !.start.x = self.start.x + (coord.x - self.end.x)]
                       ELSE IF e.x_overflow[1] = "Smaller"
                       THEN [self EXCEPT !.start.x = coord.x,
                                         !.end.x = self.end.x - (self.start.x - coord.x)]
                       ELSE self
             IN  IF e.y_overflow[1] = "Larger"
                 THEN [g1 EXCEPT !.end.y = coord.y,
                                 !.start.y = self.start.y + (coord.y - self.end.y)]
                 ELSE IF e.y_overflow[1] = "Smaller"
                 THEN [g1 EXCEPT !.start.y = coord.y,
                                 !.end.y = self.end.y - (self.start.y - coord.y)]
                 ELSE g1
        ELSE self

\* Grid::check_and_resize
check_and_resize(self, coord) ==
    LET r == check_bounds(self, coord)
    IN  IF IsErr(r)
        THEN LET e  == r[2]
                 g1 == IF e.x_overflow[1] = "Larger"
                       THEN [self EXCEPT !.end.x = coord.x]
                       ELSE IF e.x_overflow[1] = "Smaller"
                       THEN [self EXCEPT !.start.x = coord.x]
                       ELSE self
             IN  IF e.y_overflow[1] = "Larger"
                 THEN [g1 EXCEPT !.end.y = coord.y]
                 ELSE IF e.y_overflow[1] = "Smaller"
                 THEN [g1 EXCEPT !.start.y = coord.y]
                 ELSE g1
        ELSE self

\* Grid::get_bounded: the returned Result
get_bounded(self, coord) ==
    LET r == check_bounds(self, coord)
    IN  IF IsErr(r) THEN r ELSE Ok(get(self, coord))

\* set_bounded as it would be writing before it checks
set_bounded_writes_first(self, coord, val) ==
    LET r == check_bounds(self, coord)
    IN  IF IsErr(r)
        THEN [res |-> r, grid |-> set(self, coord, val)]
        ELSE [res |-> Ok(Unit), grid |-> set(self, coord, val)]

\* Grid::set_bounded: the returned Result and the grid afterwards
set_bounded(self, coord, val) ==
    LET r == check_bounds(self, coord)
    IN  IF IsErr(r)
        THEN [res |-> r, grid |-> self]
        ELSE [res |-> Ok(Unit), grid |-> set(self, coord, val)]

\* get_resize as it would be storing an entry for the coordinate it reads
get_resize_inserting(self, coord) ==
    LET g == check_and_resize(self, coord)
    IN  [res |-> get(g, coord), grid |-> set(g, coord, get(g, coord))]

\* Grid::get_resize: the returned value and the grid afterwards
get_resize(self, coord) ==
    LET g == check_and_resize(self, coord)
    IN  [res |-> get(g, coord), grid |-> g]

\* set_resize as it would be writing without growing the bounds
set_resize_without_resizing(self, coord, val) == set(self, coord, val)

\* Grid::set_resize: the grid afterwards
set_resize(self, coord, val) == set(check_and_resize(self, coord), coord, val)

(***************************************************************************)
(* Line and LineIter                                                       *)
(***************************************************************************)
\* Line::new
Line(start, end) == [start |-> start, end |-> end]

\* Line::coords
coords(self) == [first |-> TRUE, current |-> self.start, end |-> self.end]

\* next as it would be testing for the end after the step: the end is not yielded
next_stops_before_end(self) ==
    IF self.first
    THEN [item |-> <<"Some", self.current>>, iter |-> [self EXCEPT !.first = FALSE]]
    ELSE LET c == closest(self.current, self.end)
         IN  IF c = self.end
             THEN [item |-> <<"None">>, iter |-> [self EXCEPT !.current = c]]
             ELSE [item |-> <<"Some", c>>, iter |-> [self EXCEPT !.current = c]]

\* LineIter::next: the returned Option and the iterator afterwards
next(self) ==
    IF self.first
    THEN [item |-> <<"Some", self.current>>, iter |-> [self EXCEPT !.first = FALSE]]
    ELSE IF self.current = self.end
    THEN [item |-> <<"None">>, iter |-> self]
    ELSE LET c == closest(self.current, self.end)
         IN  [item |-> <<"Some", c>>, iter |-> [self EXCEPT !.current = c]]

\* Iterator::collect on a LineIter: next() until it returns None
RECURSIVE collect(_)
collect(it) ==
    LET r == next(it)
    IN  IF r.item[1] = "None" THEN <<>> ELSE <<r.item[2]>> \o collect(r.iter)

(***************************************************************************)
(* Square                                                                  *)
(***************************************************************************)
\* Coordinate::with_x, Coordinate::with_y
with_x(self, x) == Coordinate(x, self.y)
with_y(self, y) == Coordinate(self.x, y)

\* Square::new
Square(min, max) == [min |-> min, max |-> max]

\* the flat_map of Square::coords: one Line from y to y.with_x(max_x) for each
\* coordinate y of the column, their items chained
RECURSIVE flat_map_rows(_, _)
flat_map_rows(col, max_x) ==
    IF col = <<>>
    THEN <<>>
    ELSE collect(coords(Line(Head(col), with_x(Head(col), max_x))))
            \o flat_map_rows(Tail(col), max_x)

\* Square::coords as it would be running the column line from min to max
Square_coords_column_to_max(self) ==
    LET col == Line(self.min, self.max)
    IN  flat_map_rows(collect(coords(col)), self.max.x)

\* Square::coords, collected
Square_coords(self) ==
    LET col == Line(self.min, with_x(self.max, self.min.x))
    IN  flat_map_rows(collect(coords(col)), self.max.x)

(***************************************************************************)
(* Grid: the coordinate listings                                           *)
(***************************************************************************)
\* the inclusive range a..=b as the sequence it iterates, empty when a > b
RangeInclusive(a, b) == [i \in 1..(b - a + 1) |-> a + i - 1]

\* the flat_map of Grid::coords: for each y of ys the coordinates (x, y), x in xs
RECURSIVE flat_map_ys(_, _)
flat_map_ys(ys, xs) ==
    IF ys = <<>>
    THEN <<>>
    ELSE [i \in 1..Len(xs) |-> Coordinate(xs[i], Head(ys))] \o flat_map_ys(Tail(ys), xs)

\* Grid::coords as it would be with the ranges start..end, the end excluded
Grid_coords_end_exclusive(self) ==
    flat_map_ys(RangeInclusive(self.start.y, self.end.y - 1),
                RangeInclusive(self.start.x, self.end.x - 1))

\* Grid::coords
Grid_coords(self) ==
    flat_map_ys(RangeInclusive(self.start.y, self.end.y),
                RangeInclusive(self.start.x, self.end.x))

\* coords_at_x as it would be running the line from end to start
coords_at_x_from_end(self, x) ==
    LET start == with_x(self.start, x)
        end == with_x(self.end, x)
        r1 == check_bounds(self, start)
        r2 == check_bounds(self, end)
    IN  IF IsErr(r1) THEN r1
        ELSE IF IsErr(r2) THEN r2
        ELSE Ok(collect(coords(Line(end, start))))

\* Grid::coords_at_x: the returned Result
coords_at_x(self, x) ==
    LET start == with_x(self.start, x)
        end == with_x(self.end, x)
        r1 == check_bounds(self, start)
        r2 == check_bounds(self, end)
    IN  IF IsErr(r1) THEN r1
        ELSE IF IsErr(r2) THEN r2
        ELSE Ok(collect(coords(Line(start, end))))

\* Grid::coords_at_y: the returned Result
coords_at_y(self, y) ==
    LET start == with_y(self.start, y)
        end == with_y(self.end, y)
        r1 == check_bounds(self, start)
        r2 == check_bounds(self, end)
    IN  IF IsErr(r1) THEN r1
        ELSE IF IsErr(r2) THEN r2
        ELSE Ok(collect(coords(Line(start, end))))

\* the closure `filter` applied to a coordinate
call(filter, sq) ==
    CASE filter = "true" -> TRUE
      [] filter = "false" -> FALSE
      [] filter = "x_even" -> sq.x % 2 = 0

\* coords_in_area as it would be without the distance test of its filter
coords_in_area_whole_square(self, coord, distance, filter) ==
    LET min == offset(coord, -distance, distance)
        max == offset(coord, distance, -distance)
        square == Square(min, max)
        keep(sq) == call(filter, sq)
    IN  SelectSeq(Square_coords(square), keep)

\* coords_in_area as it would be keeping to the grid's bounds
coords_in_area_within_bounds(self, coord, distance, filter) ==
    LET min == offset(coord, -distance, distance)
        max == offset(coord, distance, -distance)
        square == Square(min, max)
        keep(sq) == /\ call(filter, sq) /\ manhattan_distance(sq, coord) <= distance
                    /\ self.start.x <= sq.x /\ sq.x <= self.end.x
                    /\ self.start.y <= sq.y /\ sq.y <= self.end.y
    IN  SelectSeq(Square_coords(square), keep)

\* Grid::coords_in_area, collected
coords_in_area(self, coord, distance, filter) ==
    LET min == offset(coord, -distance, distance)
        max == offset(coord, distance, -distance)
        square == Square(min, max)
        keep(sq) == call(filter, sq) /\ manhattan_distance(sq, coord) <= distance
    IN  SelectSeq(Square_coords(square), keep)

(***************************************************************************)
(* Coordinate over the whole integer range: every arithmetic operation     *)
(* either fits, or overflows and then panics (overflow checks on) or wraps *)
(***************************************************************************)
I32Min == 0 - I32Max - 1
U32Max == 2 * I32Max + 1
Modulus == 2 * I32Max + 2
I32 == I32Min..I32Max
U32 == 0..U32Max
I32Coords == {Coordinate(x, y) : x \in I32, y \in I32}

InI32(n) == I32Min <= n /\ n <= I32Max
InU32(n) == 0 <= n /\ n <= U32Max
\* the two's complement result of an operation whose exact result is n
wrap_i32(n) == ((n - I32Min) % Modulus) + I32Min
wrap_u32(n) == n % Modulus
\* the cast `n as i32` of a u32
as_i32(n) == IF n > I32Max THEN n - Modulus ELSE n

\* a call either returns a value or panics
Returns(v) == <<"returns", v>>
Panic == <<"panic">>

\* impl Add for Coordinate, in i32
add_i32(self, rhs) ==
    LET x == self.x + rhs.x
        y == self.y + rhs.y
    IN  IF overflow_checks /\ ~(InI32(x) /\ InI32(y))
        THEN Panic
        ELSE Returns(Coordinate(wrap_i32(x), wrap_i32(y)))

\* subtraction as it would be with its operands exchanged
sub_i32_exchanged(self, rhs) ==
    LET x == rhs.x - self.x
        y == rhs.y - self.y
    IN  IF overflow_checks /\ ~(InI32(x) /\ InI32(y))
        THEN Panic
        ELSE Returns(Coordinate(wrap_i32(x), wrap_i32(y)))

\* impl Sub for Coordinate, in i32
sub_i32(self, rhs) ==
    LET x == self.x - rhs.x
        y == self.y - rhs.y
    IN  IF overflow_checks /\ ~(InI32(x) /\ InI32(y))
        THEN Panic
        ELSE Returns(Coordinate(wrap_i32(x), wrap_i32(y)))

\* Coordinate::offset, in i32
offset_i32(self, xd, yd) ==
    LET x == self.x + xd
        y == self.y + yd
    IN  IF overflow_checks /\ ~(InI32(x) /\ InI32(y))
        THEN Panic
        ELSE Returns(Coordinate(wrap_i32(x), wrap_i32(y)))

\* Coordinate::closest, in i32
closest_i32(self, other) ==
    LET d == sub_i32(other, self)
    IN  IF d = Panic
        THEN Panic
        ELSE offset_i32(self, signum(d[2].x), signum(d[2].y))

\* Coordinate::manhattan_distance, in u32
manhattan_distance_u32(self, other) ==
    LET xd == abs_diff(self.x, other.x)
        yd == abs_diff(self.y, other.y)
    IN  IF InU32(xd + yd) THEN Returns(xd + yd)
        ELSE IF overflow_checks THEN Panic
        ELSE Returns(wrap_u32(xd + yd))

\* enum Direction
Direction == {"Up", "Down", "Left", "Right"}

\* the negation -amount of offset_direction, in i32
neg_i32(amount) ==
    IF InI32(0 - amount) THEN Returns(0 - amount)
    ELSE IF overflow_checks THEN Panic
    ELSE Returns(wrap_i32(0 - amount))

\* Coordinate::offset_direction, in i32
offset_direction_i32(self, direction, amount) ==
    LET amt == as_i32(amount)
        neg == neg_i32(amt)
    IN  CASE direction = "Up" -> offset_i32(self, 0, amt)
          [] direction = "Down" ->
                IF neg = Panic THEN Panic ELSE offset_i32(self, 0, neg[2])
          [] direction = "Left" ->
                IF neg = Panic THEN Panic ELSE offset_i32(self, neg[2], 0)
          [] direction = "Right" -> offset_i32(self, amt, 0)

(***************************************************************************)
(* Spec: the grid under any sequence of calls                              *)
(***************************************************************************)
NoArg == "-"

\* the record of a call: method, arguments, returned value, and in `before`
\* what the call just before it returned when that was the same call
Call(op, coord, val, res) ==
    [op |-> op, coord |-> coord, val |-> val, res |-> res,
     before |-> IF ret.op = op /\ ret.coord = coord /\ ret.val = val
                THEN Some(ret.res)
                ELSE None]

\* the record of the constructor call
Constructed ==
    [op |-> "from_coords", coord |-> NoArg, val |-> NoArg, res |-> NoArg, before |-> None]

IdlePure ==
    /\ input = NoArg
    /\ output = None
    /\ overflow_checks = FALSE

IdleLine ==
    /\ line = Line(Coordinate(0, 0), Coordinate(0, 0))
    /\ iter = coords(line)
    /\ out = <<>>
    /\ last = "-"

Init ==
    /\ \E s \in Coords, e \in Coords, emp \in Values :
          /\ grid = from_coords(s, e, emp)
          /\ ctor = [start |-> s, end |-> e, empty |-> emp]
    /\ log = <<>>
    /\ prev = grid
    /\ ret = Constructed
    /\ calls = 0
    /\ IdleLine
    /\ IdlePure

Get(c) ==
    /\ calls < MaxCalls
    /\ ret' = Call("get", c, NoArg, get(grid, c))
    /\ prev' = grid
    /\ calls' = calls + 1
    /\ UNCHANGED <<grid, ctor, log, lineVars, pureVars>>

\* set as it would be growing the bounds to its coordinate
Set_resizing(c, v) ==
    /\ calls < MaxCalls
    /\ grid' = set_resize(grid, c, v)
    /\ log' = Append(log, [coord |-> c, val |-> v])
    /\ ret' = Call("set", c, v, Unit)
    /\ prev' = grid
    /\ calls' = calls + 1
    /\ UNCHANGED <<ctor, lineVars, pureVars>>

Set(c, v) ==
    /\ calls < MaxCalls
    /\ grid' = set(grid, c, v)
    /\ log' = Append(log, [coord |-> c, val |-> v])
    /\ ret' = Call("set", c, v, Unit)
    /\ prev' = grid
    /\ calls' = calls + 1
    /\ UNCHANGED <<ctor, lineVars, pureVars>>

\* get_bounded as it would be growing the bounds after its check
GetBounded_resizing(c) ==
    /\ calls < MaxCalls
    /\ grid' = check_and_resize(grid, c)
    /\ ret' = Call("get_bounded", c, NoArg, get_bounded(grid, c))
    /\ prev' = grid
    /\ calls' = calls + 1
    /\ UNCHANGED <<ctor, log, lineVars, pureVars>>

GetBounded(c) ==
    /\ calls < MaxCalls
    /\ ret' = Call("get_bounded", c, NoArg, get_bounded(grid, c))
    /\ prev' = grid
    /\ calls' = calls + 1
    /\ UNCHANGED <<grid, ctor, log, lineVars, pureVars>>

SetBounded(c, v) ==
    LET r == set_bounded(grid, c, v)
    IN  /\ calls < MaxCalls
        /\ grid' = r.grid
        /\ log' = IF IsOk(r.res) THEN Append(log, [coord |-> c, val |-> v]) ELSE log
        /\ ret' = Call("set_bounded", c, v, r.res)
        /\ prev' = grid
        /\ calls' = calls + 1
        /\ UNCHANGED <<ctor, lineVars, pureVars>>

GetResize(c) ==
    LET r == get_resize(grid, c)
    IN  /\ calls < MaxCalls
        /\ grid' = r.grid
        /\ ret' = Call("get_resize", c, NoArg, r.res)
        /\ prev' = grid
        /\ calls' = calls + 1
        /\ UNCHANGED <<ctor, log, lineVars, pureVars>>

SetResize(c, v) ==
    /\ calls < MaxCalls
    /\ grid' = set_resize(grid, c, v)
    /\ log' = Append(log, [coord |-> c, val |-> v])
    /\ ret' = Call("set_resize", c, v, Unit)
    /\ prev' = grid
    /\ calls' = calls + 1
    /\ UNCHANGED <<ctor, lineVars, pureVars>>

Width ==
    /\ calls < MaxCalls
    /\ ret' = Call("width", NoArg, NoArg, width(grid))
    /\ prev' = grid
    /\ calls' = calls + 1
    /\ UNCHANGED <<grid, ctor, log, lineVars, pureVars>>

Height ==
    /\ calls < MaxCalls
    /\ ret' = Call("height", NoArg, NoArg, height(grid))
    /\ prev' = grid
    /\ calls' = calls + 1
    /\ UNCHANGED <<grid, ctor, log, lineVars, pureVars>>

GridCoords ==
    /\ calls < MaxCalls
    /\ ret' = Call("coords", NoArg, NoArg, Grid_coords(grid))
    /\ prev' = grid
    /\ calls' = calls + 1
    /\ UNCHANGED <<grid, ctor, log, lineVars, pureVars>>

CoordsAtX(x) ==
    /\ calls < MaxCalls
    /\ ret' = Call("coords_at_x", x, NoArg, coords_at_x(grid, x))
    /\ prev' = grid
    /\ calls' = calls + 1
    /\ UNCHANGED <<grid, ctor, log, lineVars, pureVars>>

CoordsAtY(y) ==
    /\ calls < MaxCalls
    /\ ret' = Call("coords_at_y", y, NoArg, coords_at_y(grid, y))
    /\ prev' = grid
    /\ calls' = calls + 1
    /\ UNCHANGED <<grid, ctor, log, lineVars, pureVars>>

CoordsInAreaOf(c, d, f) ==
    /\ calls < MaxCalls
    /\ ret' = Call("coords_in_area", c, [distance |-> d, filter |-> f],
                   coords_in_area(grid, c, d, f))
    /\ prev' = grid
    /\ calls' = calls + 1
    /\ UNCHANGED <<grid, ctor, log, lineVars, pureVars>>

Next ==
    \/ \E c \in Coords : Get(c)
    \/ \E c \in Coords, v \in Values : Set(c, v)
    \/ \E c \in Coords : GetBounded(c)
    \/ \E c \in Coords, v \in Values : SetBounded(c, v)
    \/ \E c \in Coords : GetResize(c)
    \/ \E c \in Coords, v \in Values : SetResize(c, v)
    \/ Width
    \/ Height
    \/ GridCoords
    \/ \E x \in 0..MaxCoord : CoordsAtX(x)
    \/ \E y \in 0..MaxCoord : CoordsAtY(y)
    \/ \E c \in Coords : CoordsInAreaOf(c, 1, "true")

Spec == Init /\ [][Next]_vars

(***************************************************************************)
(* LineSpec: one line iterator driven to exhaustion and beyond             *)
(***************************************************************************)
IdleGrid ==
    /\ grid = from_coords(Coordinate(0, 0), Coordinate(0, 0), "a")
    /\ ctor = [start |-> Coordinate(0, 0), end |-> Coordinate(0, 0), empty |-> "a"]
    /\ log = <<>>
    /\ prev = grid
    /\ ret = Constructed
    /\ calls = 0

LineInit ==
    /\ \E s \in LineCoords, e \in LineCoords : line = Line(s, e)
    /\ iter = coords(line)
    /\ out = <<>>
    /\ last = "-"
    /\ IdleGrid
    /\ IdlePure

\* one call of next() that yields an item
NextSome ==
    LET r == next(iter)
    IN  /\ r.item[1] = "Some"
        /\ iter' = r.iter
        /\ out' = Append(out, r.item[2])
        /\ last' = "Some"
        /\ UNCHANGED <<line, gridVars, pureVars>>

\* one call of next() that finds the iterator exhausted
NextNone ==
    LET r == next(iter)
    IN  /\ r.item[1] = "None"
        /\ iter' = r.iter
        /\ last' = "None"
        /\ UNCHANGED <<line, out, gridVars, pureVars>>

LineNext == NextSome \/ NextNone

LineSpec == LineInit /\ [][LineNext]_vars

(***************************************************************************)
(* SquareSpec: one call of Square::coords                                  *)
(***************************************************************************)
SquareInit ==
    /\ \E min \in SquareCorners, max \in SquareCorners : input = Square(min, max)
    /\ output = None
    /\ overflow_checks = FALSE
    /\ IdleGrid
    /\ IdleLine

SquareCoords ==
    /\ output = None
    /\ output' = Some(Square_coords(input))
    /\ UNCHANGED <<input, overflow_checks, gridVars, lineVars>>

SquareNext == SquareCoords

SquareSpec == SquareInit /\ [][SquareNext]_vars

(***************************************************************************)
(* AreaSpec: one call of coords_in_area on any grid                        *)
(***************************************************************************)
AreaInit ==
    /\ \E s \in Coords, e \in Coords :
          /\ grid = from_coords(s, e, "a")
          /\ ctor = [start |-> s, end |-> e, empty |-> "a"]
    /\ log = <<>>
    /\ prev = grid
    /\ ret = Constructed
    /\ calls = 0
    /\ \E c \in Coords, d \in 0..MaxDistance, f \in Filters :
          input = [coord |-> c, distance |-> d, filter |-> f]
    /\ output = None
    /\ overflow_checks = FALSE
    /\ IdleLine

CoordsInArea ==
    /\ output = None
    /\ output' = Some(coords_in_area(grid, input.coord, input.distance, input.filter))
    /\ UNCHANGED <<input, overflow_checks, gridVars, lineVars>>

AreaNext == CoordsInArea

AreaSpec == AreaInit /\ [][AreaNext]_vars

(***************************************************************************)
(* CoordSpec: one call of a Coordinate method, in either build             *)
(***************************************************************************)
CoordInit ==
    /\ overflow_checks \in BOOLEAN
    /\ input = NoArg
    /\ output = None
    /\ IdleGrid
    /\ IdleLine

Add(a, b) ==
    /\ input' = [op |-> "add", self |-> a, rhs |-> b]
    /\ output' = Some(add_i32(a, b))
    /\ UNCHANGED <<overflow_checks, gridVars, lineVars>>

Sub(a, b) ==
    /\ input' = [op |-> "sub", self |-> a, rhs |-> b]
    /\ output' = Some(sub_i32(a, b))
    /\ UNCHANGED <<overflow_checks, gridVars, lineVars>>

Closest(a, b) ==
    /\ input' = [op |-> "closest", self |-> a, other |-> b]
    /\ output' = Some(closest_i32(a, b))
    /\ UNCHANGED <<overflow_checks, gridVars, lineVars>>

ManhattanDistance(a, b) ==
    /\ input' = [op |-> "manhattan_distance", self |-> a, other |-> b]
    /\ output' = Some(manhattan_distance_u32(a, b))
    /\ UNCHANGED <<overflow_checks, gridVars, lineVars>>

OffsetDirection(c, dir, n) ==
    /\ input' = [op |-> "offset_direction", self |-> c, direction |-> dir, amount |-> n]
    /\ output' = Some(offset_direction_i32(c, dir, n))
    /\ UNCHANGED <<overflow_checks, gridVars, lineVars>>

\* one call in a behaviour, on any receiver and arguments
Uncalled == output = None

CoordNext ==
    \/ Uncalled /\ \E a \in I32Coords, b \in I32Coords : Add(a, b)
    \/ Uncalled /\ \E a \in I32Coords, b \in I32Coords : Sub(a, b)
    \/ Uncalled /\ \E a \in I32Coords, b \in I32Coords : Closest(a, b)
    \/ Uncalled /\ \E a \in I32Coords, b \in I32Coords : ManhattanDistance(a, b)
    \/ Uncalled /\ \E c \in I32Coords, dir \in Direction, n \in U32 :
                       OffsetDirection(c, dir, n)

CoordSpec == CoordInit /\ [][CoordNext]_vars

(***************************************************************************)
(* LineI32Spec: a LineIter over the whole i32 range, in either build        *)
(***************************************************************************)
\* next as it would be rewinding the iterator when it finds it exhausted
next_i32_rewinding(self) ==
    IF self.first
    THEN Returns([item |-> <<"Some", self.current>>, iter |-> [self EXCEPT !.first = FALSE]])
    ELSE IF self.current = self.end
    THEN Returns([item |-> <<"None">>, iter |-> [self EXCEPT !.first = TRUE]])
    ELSE LET c == closest_i32(self.current, self.end)
         IN  IF c = Panic
             THEN Panic
             ELSE Returns([item |-> <<"Some", c[2]>>,
                           iter |-> [self EXCEPT !.current = c[2]]])

\* LineIter::next with closest computed in i32: a panic, or the returned
\* Option and the iterator afterwards
next_i32(self) ==
    IF self.first
    THEN Returns([item |-> <<"Some", self.current>>, iter |-> [self EXCEPT !.first = FALSE]])
    ELSE IF self.current = self.end
    THEN Returns([item |-> <<"None">>, iter |-> self])
    ELSE LET c == closest_i32(self.current, self.end)
         IN  IF c = Panic
             THEN Panic
             ELSE Returns([item |-> <<"Some", c[2]>>,
                           iter |-> [self EXCEPT !.current = c[2]]])

LineI32Init ==
    /\ \E s \in I32Coords, e \in I32Coords : line = Line(s, e)
    /\ iter = coords(line)
    /\ out = <<>>
    /\ last = "-"
    /\ overflow_checks \in BOOLEAN
    /\ input = NoArg
    /\ output = None
    /\ IdleGrid

\* the call of next() panicked: the thread unwinds and makes no further call
Panicked == last = "panic"

\* one call of next() that yields an item
NextSomeI32 ==
    LET r == next_i32(iter)
    IN  /\ ~Panicked
        /\ r # Panic
        /\ r[2].item[1] = "Some"
        /\ iter' = r[2].iter
        /\ out' = Append(out, r[2].item[2])
        /\ last' = "Some"
        /\ UNCHANGED <<line, gridVars, pureVars>>

\* one call of next() that finds the iterator exhausted
NextNoneI32 ==
    LET r == next_i32(iter)
    IN  /\ ~Panicked
        /\ r # Panic
        /\ r[2].item[1] = "None"
        /\ iter' = r[2].iter
        /\ last' = "None"
        /\ UNCHANGED <<line, out, gridVars, pureVars>>

\* one call of next() that panics in closest, before current is assigned
NextPanicsI32 ==
    /\ ~Panicked
    /\ next_i32(iter) = Panic
    /\ last' = "panic"
    /\ UNCHANGED <<line, iter, out, gridVars, pureVars>>

LineI32Next == NextSomeI32 \/ NextNoneI32 \/ NextPanicsI32

LineI32Spec == LineI32Init /\ [][LineI32Next]_vars

(***************************************************************************)
(* Vocabulary of the properties                                            *)
(***************************************************************************)
\* c lies in the rectangle [g.start, g.end], both ends included
InBounds(g, c) ==
    /\ g.start.x <= c.x /\ c.x <= g.end.x
    /\ g.start.y <= c.y /\ c.y <= g.end.y

\* start <= end on both axes
Ordered(s, e) == s.x <= e.x /\ s.y <= e.y

\* the positions of the log that wrote to c
WritesTo(c) == {i \in 1..Len(log) : log[i].coord = c}

Max(S) == CHOOSE m \in S : \A n \in S : n <= m

\* what a read of c has to return: the latest value written to c, else empty
Expected(c) ==
    IF WritesTo(c) = {} THEN grid.empty ELSE log[Max(WritesTo(c))].val

\* the classification of one axis of a coordinate against the bounds lo, hi
Overflow(v, lo, hi) ==
    IF v < lo THEN Smaller(lo) ELSE IF v > hi THEN Larger(hi) ELSE None

\* the last call went through the resizing family
Resizing == ret.op \in {"get_resize", "set_resize"}

(***************************************************************************)
(* Properties of the grid, checked under Spec                              *)
(***************************************************************************)
\* C1: in every reachable grid and for every coordinate c, inside or outside
\* [start, end], get(c) returns a value (it has no failure) and that value is the
\* one the latest successful set/set_bounded/set_resize wrote to c, or empty
\* when c was never written; a get call returns just that.
C1_GetReturnsLatestWrite ==
    /\ \A c \in Coords : get(grid, c) \in Values /\ get(grid, c) = Expected(c)
    /\ ret.op = "get" => ret.res = Expected(ret.coord)

\* a get of a coordinate outside the rectangle, after an unchecked write put
\* a value other than empty there
C1_Witness ==
    /\ ret.op = "get"
    /\ ~InBounds(grid, ret.coord)
    /\ WritesTo(ret.coord) # {}
    /\ ret.res # grid.empty

\* C2: get_bounded(c) returns an OutOfBounds error exactly when c.x < start.x
\* or c.x > end.x or c.y < start.y or c.y > end.y, and otherwise it returns the
\* value get(c) returns.
C2_GetBoundedErrIffOutside ==
    /\ \A c \in Coords :
          LET r == get_bounded(grid, c)
          IN  /\ IsErr(r) <=> (\/ c.x < grid.start.x \/ c.x > grid.end.x
                               \/ c.y < grid.start.y \/ c.y > grid.end.y)
              /\ IsOk(r) <=> ~IsErr(r)
              /\ IsOk(r) => r[2] = get(grid, c) /\ r[2] = Expected(c)
    /\ ret.op = "get_bounded" => ret.res = get_bounded(grid, ret.coord)

\* a get_bounded that failed on one axis only, after a resize moved the bounds
C2_Witness ==
    /\ ret.op = "get_bounded"
    /\ IsErr(ret.res)
    /\ ret.coord.x > grid.end.x
    /\ grid.start.y <= ret.coord.y /\ ret.coord.y <= grid.end.y
    /\ grid.end # ctor.end

\* C3: every OutOfBounds the grid produces for a coordinate c carries c and,
\* for each axis on its own, Smaller(start on that axis) if c is below start,
\* Larger(end on that axis) if c is above end, None otherwise (the cases taken
\* in that order), and at least one of the two axes is not None.
C3_OutOfBoundsClassifiesEachAxis ==
    /\ \A c \in Coords :
          LET r == check_bounds(grid, c)
          IN  IsErr(r) =>
                /\ r[2].coord = c
                /\ r[2].x_overflow = Overflow(c.x, grid.start.x, grid.end.x)
                /\ r[2].y_overflow = Overflow(c.y, grid.start.y, grid.end.y)
                /\ r[2].x_overflow # None \/ r[2].y_overflow # None
                /\ get_bounded(grid, c) = r
    /\ ret.op \in {"get_bounded", "set_bounded"} /\ IsErr(ret.res) =>
          /\ ret.res[2].coord = ret.coord
          /\ ret.res[2].x_overflow = Overflow(ret.coord.x, prev.start.x, prev.end.x)
          /\ ret.res[2].y_overflow = Overflow(ret.coord.y, prev.start.y, prev.end.y)
          /\ ret.res[2].x_overflow # None \/ ret.res[2].y_overflow # None

\* a get_bounded above the end on both axes, as (5,5) on a (0,0)-(2,2) grid
C3_Witness ==
    /\ ret.op = "get_bounded"
    /\ IsErr(ret.res)
    /\ Ordered(grid.start, grid.end)
    /\ ret.res[2].x_overflow = Larger(grid.end.x)
    /\ ret.res[2].y_overflow = Larger(grid.end.y)

\* C4: set_bounded(c, v) with c outside [start, end] returns an OutOfBounds
\* error and leaves the stored entries, start and end unchanged; with c inside
\* it succeeds, get(c) = v afterwards, and every other coordinate's get value
\* and the bounds are unchanged.
C4_SetBoundedWritesOnlyInside ==
    ret.op = "set_bounded" =>
        IF InBounds(prev, ret.coord)
        THEN /\ IsOk(ret.res)
             /\ get(grid, ret.coord) = ret.val
             /\ \A d \in Coords \ {ret.coord} : get(grid, d) = get(prev, d)
             /\ grid.start = prev.start /\ grid.end = prev.end
        ELSE /\ IsErr(ret.res)
             /\ grid.points = prev.points
             /\ grid.start = prev.start /\ grid.end = prev.end

\* a set_bounded refused on a grid that already holds a written cell
C4_Witness ==
    /\ ret.op = "set_bounded"
    /\ IsErr(ret.res)
    /\ Len(log) = 1
    /\ get(grid, ret.coord) # ret.val

\* C5 as claimed: for every reachable grid, after set_resize(c, v) the
\* coordinate c lies inside [start, end] (get_bounded(c) succeeds), get(c) = v
\* and get(d) is unchanged for every d # c.
C5_SetResizePutsCoordInBounds ==
    ret.op = "set_resize" =>
        /\ InBounds(grid, ret.coord)
        /\ IsOk(get_bounded(grid, ret.coord))
        /\ get(grid, ret.coord) = ret.val
        /\ \A d \in Coords \ {ret.coord} : get(grid, d) = get(prev, d)

\* C5 as amended: the same, for every grid that was constructed with
\* start <= end on both axes.
C5_SetResizePutsCoordInBoundsOrdered ==
    Ordered(ctor.start, ctor.end) => C5_SetResizePutsCoordInBounds

\* a set_resize beyond the end of an ordered grid that holds a written cell
C5_Witness ==
    /\ ret.op = "set_resize"
    /\ Ordered(ctor.start, ctor.end)
    /\ ~InBounds(prev, ret.coord)
    /\ Len(log) = 2
    /\ log[1].coord # ret.coord
    /\ get(grid, log[1].coord) # grid.empty

\* C6: in every reachable state, after resizing calls too, width() is
\* end.x - start.x + 1 and height() is end.y - start.y + 1 for the current
\* start and end.  Stated for grids constructed with start <= end, so that a
\* violation does not rest on a constructor call the caller must not make.
C6_WidthHeightFollowBounds ==
    Ordered(ctor.start, ctor.end) =>
        /\ width(grid) = grid.end.x - grid.start.x + 1
        /\ height(grid) = grid.end.y - grid.start.y + 1
        /\ ret.op = "width" => ret.res = grid.end.x - grid.start.x + 1
        /\ ret.op = "height" => ret.res = grid.end.y - grid.start.y + 1

\* C7: from one call to the next start.x and start.y never increase and
\* end.x and end.y never decrease, so every coordinate that was in bounds
\* before a call is in bounds after it.
C7_BoundsOnlyGrow ==
    /\ grid.start.x <= prev.start.x /\ grid.start.y <= prev.start.y
    /\ grid.end.x >= prev.end.x /\ grid.end.y >= prev.end.y
    /\ \A c \in Coords : InBounds(prev, c) => InBounds(grid, c)

\* two resizes, the first moved the start and the second the end
C7_Witness ==
    /\ Resizing
    /\ prev.start # ctor.start /\ prev.end = ctor.end
    /\ grid.end # prev.end
    /\ Ordered(ctor.start, ctor.end)

\* C8: a grid constructed with start.x <= end.x and start.y <= end.y has
\* start.x <= end.x and start.y <= end.y in every state its methods reach.
C8_OrderedStaysOrdered ==
    Ordered(ctor.start, ctor.end) => Ordered(grid.start, grid.end)

\* an ordered grid after a resize below its start on one axis and above its
\* end on the other
C8_Witness ==
    /\ Resizing
    /\ Ordered(ctor.start, ctor.end)
    /\ grid.start.x < prev.start.x
    /\ grid.end.y > prev.end.y

(***************************************************************************)
(* Properties of the line iterator, checked under LineSpec                 *)
(***************************************************************************)
Dx == line.end.x - line.start.x
Dy == line.end.y - line.start.y
MaxAbs(a, b) == IF abs(a) >= abs(b) THEN abs(a) ELSE abs(b)

\* the iterator has been run to its end
Exhausted == last = "None"

\* C9: coords() yields start first, every later item is the previous item's
\* closest(end), the item end is the last one and is yielded once, no
\* coordinate is yielded twice, and next() yields None exactly from the call
\* after the one that yielded end.
C9_LineYieldsStartToEndOnce ==
    /\ Len(out) >= 1 => out[1] = line.start
    /\ \A i \in 2..Len(out) : out[i] = closest(out[i - 1], line.end)
    /\ \A i \in 1..Len(out), j \in 1..Len(out) : i # j => out[i] # out[j]
    /\ \A i \in 1..Len(out) : out[i] = line.end => i = Len(out)
    /\ Exhausted => Len(out) >= 1 /\ out[Len(out)] = line.end
    /\ Len(out) >= 1 =>
          (next(iter).item = <<"None">> <=> out[Len(out)] = line.end)

\* a line that is neither axis-aligned nor a perfect diagonal, run to its end
C9_Witness ==
    /\ Exhausted
    /\ Dx < 0 /\ Dy > 0 /\ abs(Dx) # abs(Dy)
    /\ Len(out) = 4

\* the lattice points of the segment from line.start to line.end
OnSegment(p) ==
    /\ Dx * (p.y - line.start.y) = Dy * (p.x - line.start.x)
    /\ (p.x - line.start.x) * (p.x - line.end.x) <= 0
    /\ (p.y - line.start.y) * (p.y - line.end.y) <= 0

\* C10: for a horizontal line, a vertical line or a perfect diagonal, in
\* either direction, coords() yields exactly the lattice points of the segment
\* between the two ends, in order from start to end, max(|dx|,|dy|)+1 of them.
C10_StraightLinesYieldTheSegment ==
    Exhausted /\ (Dx = 0 \/ Dy = 0 \/ abs(Dx) = abs(Dy)) =>
        /\ Len(out) = MaxAbs(Dx, Dy) + 1
        /\ {out[i] : i \in 1..Len(out)} = {p \in LineCoords : OnSegment(p)}
        /\ \A i \in 1..Len(out) :
              MaxAbs(out[i].x - line.start.x, out[i].y - line.start.y) = i - 1

\* a perfect diagonal walked towards smaller x and larger y
C10_Witness ==
    /\ Exhausted
    /\ Dx = -3 /\ Dy = 3
    /\ Len(out) = 4

MinAbs(a, b) == IF abs(a) <= abs(b) THEN abs(a) ELSE abs(b)

\* a line that is neither axis-aligned nor a perfect diagonal
Mixed == Dx # 0 /\ Dy # 0 /\ abs(Dx) # abs(Dy)

\* C11: on a mixed line (|dx| # |dy|, neither zero) coords() moves one step on
\* both axes for its first min(|dx|,|dy|) steps, then one step at a time on the
\* axis of the larger delta only, and ends on end; the line (1,1) -> (3,4)
\* yields (1,1), (2,2), (3,3), (3,4).
C11_MixedLineDiagonalThenStraight ==
    Mixed =>
        /\ \A i \in 2..Len(out) :
              LET sx == out[i].x - out[i - 1].x
                  sy == out[i].y - out[i - 1].y
              IN  IF i - 1 <= MinAbs(Dx, Dy)
                  THEN sx = signum(Dx) /\ sy = signum(Dy)
                  ELSE IF abs(Dx) > abs(Dy)
                  THEN sx = signum(Dx) /\ sy = 0
                  ELSE sx = 0 /\ sy = signum(Dy)
        /\ Exhausted => out[Len(out)] = line.end /\ Len(out) = MaxAbs(Dx, Dy) + 1
        /\ Exhausted /\ line = Line(Coordinate(1, 1), Coordinate(3, 4)) =>
              out = <<Coordinate(1, 1), Coordinate(2, 2),
                      Coordinate(3, 3), Coordinate(3, 4)>>

\* the line of the crate's own test, run to its end
C11_Witness ==
    /\ Exhausted
    /\ line = Line(Coordinate(1, 1), Coordinate(3, 4))
    /\ Len(out) = 4

(***************************************************************************)
(* Properties of Square::coords, checked under SquareSpec                  *)
(***************************************************************************)
\* the rectangle [min, max] as a set
Rect(min, max) ==
    {Coordinate(x, y) : x \in min.x..max.x, y \in min.y..max.y}

\* the rectangle [min, max] row by row: increasing y, increasing x in a row
RowMajor(min, max) ==
    LET w == max.x - min.x + 1
        h == max.y - min.y + 1
    IN  IF w <= 0 \/ h <= 0
        THEN <<>>
        ELSE [k \in 1..(w * h) |->
                 Coordinate(min.x + ((k - 1) % w), min.y + ((k - 1) \div w))]

\* C12: for a Square with min <= max on both axes, coords() yields exactly
\* (max.x - min.x + 1) * (max.y - min.y + 1) coordinates, every coordinate of
\* the rectangle once, by increasing y and within a row by increasing x;
\* Square((0,0),(2,1)) yields (0,0),(1,0),(2,0),(0,1),(1,1),(2,1).
C12_SquareCoordsRowMajor ==
    output # None /\ Ordered(input.min, input.max) =>
        LET s == output[2]
        IN  /\ Len(s) = (input.max.x - input.min.x + 1) * (input.max.y - input.min.y + 1)
            /\ {s[k] : k \in 1..Len(s)} = Rect(input.min, input.max)
            /\ \A i \in 1..Len(s), j \in 1..Len(s) : i # j => s[i] # s[j]
            /\ \A i \in 1..Len(s), j \in 1..Len(s) :
                  i < j => \/ s[i].y < s[j].y
                           \/ s[i].y = s[j].y /\ s[i].x < s[j].x
            /\ input = Square(Coordinate(0, 0), Coordinate(2, 1)) =>
                  s = <<Coordinate(0, 0), Coordinate(1, 0), Coordinate(2, 0),
                        Coordinate(0, 1), Coordinate(1, 1), Coordinate(2, 1)>>

\* the square of the example, enumerated
C12_Witness ==
    /\ input = Square(Coordinate(0, 0), Coordinate(2, 1))
    /\ output # None
    /\ Len(output[2]) = 6

(***************************************************************************)
(* Properties of the grid's coordinate listings, checked under Spec        *)
(***************************************************************************)
\* what the claim C13 says of a listing s of the grid g
ListsTheRectangle(g, s) ==
    /\ {s[k] : k \in 1..Len(s)} = Rect(g.start, g.end)
    /\ \A i \in 1..Len(s), j \in 1..Len(s) : i # j => s[i] # s[j]
    /\ s = Square_coords(Square(g.start, g.end))
    /\ \A k \in 1..Len(s) : IsOk(get_bounded(g, s[k]))

\* C13 as the spec states it: in every reachable grid state Grid::coords()
\* returns exactly the coordinates of [start, end], each once, in the order of
\* Square::new(start, end).coords(), and each of them passes get_bounded.
\* False on a grid built with start > end on an axis: the ranges of
\* Grid::coords are empty there and the lines of Square::coords are not.
C13_CoordsListsTheRectangle == ListsTheRectangle(grid, Grid_coords(grid))

\* C13, amended: the same for every grid constructed with start <= end on
\* both axes, in every state it reaches, resized or not.
C13_CoordsListsTheRectangleOrdered ==
    Ordered(ctor.start, ctor.end) => ListsTheRectangle(grid, Grid_coords(grid))

\* coords() called on a grid that a resize has grown
C13_Witness ==
    /\ Ordered(ctor.start, ctor.end)
    /\ ret.op = "coords"
    /\ grid.end # ctor.end
    /\ Len(ret.res) = 6
    /\ ret.res = Grid_coords(grid)

\* what the claim C14 says of the result r of coords_at_x(x) on the grid g
ColumnAt(g, x, r) ==
    /\ IsErr(r) <=> ~(g.start.x <= x /\ x <= g.end.x)
    /\ IsOk(r) =>
          r[2] = [i \in 1..(g.end.y - g.start.y + 1) |-> Coordinate(x, g.start.y + i - 1)]

\* the same of coords_at_y(y)
RowAt(g, y, r) ==
    /\ IsErr(r) <=> ~(g.start.y <= y /\ y <= g.end.y)
    /\ IsOk(r) =>
          r[2] = [i \in 1..(g.end.x - g.start.x + 1) |-> Coordinate(g.start.x + i - 1, y)]

\* C14 as the spec states it: coords_at_x(x) fails exactly when x is outside
\* [start.x, end.x] and otherwise returns (x, y) for y from start.y to end.y in
\* increasing order; coords_at_y likewise with the axes exchanged.
\* False on a grid built with start > end on the other axis: the corner
\* start.with_x(x) is then out of bounds whatever x is.
C14_CoordsAtAxis ==
    /\ ret.op = "coords_at_x" => ColumnAt(prev, ret.coord, ret.res)
    /\ ret.op = "coords_at_y" => RowAt(prev, ret.coord, ret.res)

\* C14, amended: the same for every grid constructed with start <= end on
\* both axes.
C14_CoordsAtAxisOrdered == Ordered(ctor.start, ctor.end) => C14_CoordsAtAxis

\* a column of three listed after a resize, and the call failing off the grid
C14_Witness ==
    /\ Ordered(ctor.start, ctor.end)
    /\ ret.op = "coords_at_x"
    /\ IsOk(ret.res)
    /\ Len(ret.res[2]) = 3
    /\ grid.end # ctor.end

(***************************************************************************)
(* Properties of coords_in_area, checked under AreaSpec                    *)
(***************************************************************************)
\* every coordinate within Manhattan distance d of some centre of the window
AreaWindow ==
    {Coordinate(x, y) : x \in (0 - MaxDistance - 1)..(MaxCoord + MaxDistance + 1),
                        y \in (0 - MaxDistance - 1)..(MaxCoord + MaxDistance + 1)}

\* the coordinates the claim C15 says are yielded
Diamond(center, d, f) ==
    {c \in AreaWindow :
        /\ abs(c.x - center.x) + abs(c.y - center.y) <= d
        /\ call(f, c)}

\* C15: coords_in_area(center, d, filter) yields exactly the coordinates c with
\* manhattan_distance(c, center) <= d for which filter(c) is true, each once;
\* with the always-true filter that is 2*d*d + 2*d + 1 coordinates, 5 for d = 1.
C15_AreaIsTheFilteredDiamond ==
    output # None =>
        LET s == output[2]
            d == input.distance
        IN  /\ {s[k] : k \in 1..Len(s)} = Diamond(input.coord, d, input.filter)
            /\ \A i \in 1..Len(s), j \in 1..Len(s) : i # j => s[i] # s[j]
            /\ input.filter = "true" => Len(s) = 2 * d * d + 2 * d + 1

\* the five coordinates at distance <= 1 of a centre, under the always-true filter
C15_Witness ==
    /\ output # None
    /\ input.filter = "true"
    /\ input.distance = 1
    /\ Len(output[2]) = 5

(***************************************************************************)
(* Properties of the Coordinate methods, checked under CoordSpec           *)
(***************************************************************************)
\* the call made was `op`
Called(op) == output # None /\ input.op = op

\* C16: manhattan_distance cannot overflow or go negative: for every pair of
\* coordinates with i32 components it completes and returns the mathematical
\* value |a.x - b.x| + |a.y - b.y|, within u32.
C16_ManhattanNeverOverflows ==
    Called("manhattan_distance") =>
        LET a == input.self
            b == input.other
            m == abs(a.x - b.x) + abs(a.y - b.y)
        IN  /\ output[2] # Panic
            /\ output[2] = Returns(m)
            /\ InU32(output[2][2])

\* the exact sum and difference of two coordinates fit in i32 on both axes
SumFits(a, b) == InI32(a.x + b.x) /\ InI32(a.y + b.y)
DiffFits(a, b) == InI32(a.x - b.x) /\ InI32(a.y - b.y)

\* a + b - b == a and a + b == b + a, for the call a + b that returned s;
\* b + (a - b) == a, for the call a - b that returned d
AddSubIdentities ==
    /\ Called("add") =>
          LET a == input.self
              b == input.rhs
              s == output[2]
          IN  /\ s # Panic
              /\ sub_i32(s[2], b) = Returns(a)
              /\ add_i32(b, a) = s
    /\ Called("sub") =>
          LET a == input.self
              b == input.rhs
              d == output[2]
          IN  /\ d # Panic
              /\ add_i32(b, d[2]) = Returns(a)

C18_ManhattanIsSymmetricMetric ==
    Called("manhattan_distance") =>
        LET a == input.self
            b == input.other
        IN  /\ output[2] = Returns(abs(a.x - b.x) + abs(a.y - b.y))
            /\ output[2] = manhattan_distance_u32(b, a)
            /\ output[2] = Returns(0) <=> a = b

\* C19: for all coordinates a and b, a.closest(b) is
\* (a.x + sign(b.x - a.x), a.y + sign(b.y - a.y)); it is a when a == b, and
\* when a # b it is strictly nearer to b: max(|dx|,|dy|) to b is one less and
\* the Manhattan distance to b is smaller.
C19_ClosestStepsTowards ==
    Called("closest") =>
        LET a == input.self
            b == input.other
            r == output[2]
        IN  /\ r # Panic
            /\ r = Returns(Coordinate(a.x + signum(b.x - a.x), a.y + signum(b.y - a.y)))
            /\ a = b => r[2] = a
            /\ a # b =>
                  /\ MaxAbs(b.x - r[2].x, b.y - r[2].y) = MaxAbs(b.x - a.x, b.y - a.y) - 1
                  /\ abs(b.x - r[2].x) + abs(b.y - r[2].y)
                        < abs(b.x - a.x) + abs(b.y - a.y)

\* the direction that undoes a direction
Opposite(dir) ==
    CASE dir = "Up" -> "Down"
      [] dir = "Down" -> "Up"
      [] dir = "Left" -> "Right"
      [] dir = "Right" -> "Left"

\* C20: for every coordinate c and every u32 amount n, offset_direction(Up, n)
\* adds n to y, Down subtracts n from y, Left subtracts n from x and Right adds
\* n to x, the other axis unchanged; hence moving by n and then by n in the
\* opposite direction returns c.
C20_OffsetDirectionMovesByAmount ==
    Called("offset_direction") =>
        LET c == input.self
            n == input.amount
            dir == input.direction
            r == output[2]
        IN  /\ r # Panic
            /\ dir = "Up" => r[2] = Coordinate(c.x, c.y + n)
            /\ dir = "Down" => r[2] = Coordinate(c.x, c.y - n)
            /\ dir = "Left" => r[2] = Coordinate(c.x - n, c.y)
            /\ dir = "Right" => r[2] = Coordinate(c.x + n, c.y)
            /\ offset_direction_i32(r[2], Opposite(dir), n) = Returns(c)

(***************************************************************************)
(* Further properties of the grid, checked under Spec                      *)
(***************************************************************************)
\* C21: bounds checks and enumeration are repeatable: get_bounded and coords
\* leave the grid as it was, and a get_bounded(c), or a coords(), made right
\* after the same call returns what that call returned (the same value or the
\* same OutOfBounds, the same sequence).
C21_ReadsAreRepeatable ==
    /\ ret.op \in {"get_bounded", "coords"} => grid = prev
    /\ ret.op \in {"get_bounded", "coords"} /\ ret.before # None =>
          ret.res = ret.before[2]

\* get_bounded(c) failing twice in a row
C21_Witness ==
    /\ ret.op = "get_bounded"
    /\ ret.before # None
    /\ IsErr(ret.res)
    /\ calls = 2

Min2(a, b) == IF a <= b THEN a ELSE b
Max2(a, b) == IF a >= b THEN a ELSE b

\* what the claim C22 says of one axis: the bounds lo, hi before a resize to
\* the value v, and lo2, hi2 after it
AxisGrownTo(lo, hi, v, lo2, hi2) ==
    /\ hi2 = IF v > hi THEN v ELSE hi
    /\ lo2 = IF v < lo THEN v ELSE lo
    /\ lo2 = Min2(lo, v)
    /\ hi2 = Max2(hi, v)

\* C22 as the spec states it: a resize to c (get_resize or set_resize) gives
\* the smallest rectangle containing the old one and c: on each axis, end moves
\* to c's value if c is above end, start moves to c's value if c is below
\* start, otherwise that axis is untouched; nothing moves when c is in bounds.
\* False on a grid built with start > end on an axis: a value below start and
\* above end moves start only.
C22_ResizeIsSmallestCover ==
    Resizing =>
        /\ AxisGrownTo(prev.start.x, prev.end.x, ret.coord.x, grid.start.x, grid.end.x)
        /\ AxisGrownTo(prev.start.y, prev.end.y, ret.coord.y, grid.start.y, grid.end.y)
        /\ InBounds(prev, ret.coord) => grid.start = prev.start /\ grid.end = prev.end

\* C22, amended: the same for every grid constructed with start <= end on
\* both axes.
C22_ResizeIsSmallestCoverOrdered ==
    Ordered(ctor.start, ctor.end) => C22_ResizeIsSmallestCover

\* a resize that lowers start on x and leaves the y axis alone
C22_Witness ==
    /\ Resizing
    /\ Ordered(ctor.start, ctor.end)
    /\ ret.coord.x < prev.start.x
    /\ grid.start.x = ret.coord.x
    /\ prev.start.y <= ret.coord.y /\ ret.coord.y <= prev.end.y
    /\ grid.end = prev.end

\* C23: only get_resize and set_resize change the bounds: get, set (also with
\* a coordinate outside [start, end]), get_bounded, set_bounded (succeeding or
\* failing), coords, coords_at_x, coords_at_y and coords_in_area leave start
\* and end as they were.
C23_OnlyResizeMovesBounds ==
    /\ ret.op \in {"get", "set", "get_bounded", "set_bounded", "coords",
                   "coords_at_x", "coords_at_y", "coords_in_area"} =>
          grid.start = prev.start /\ grid.end = prev.end
    /\ grid.start # prev.start \/ grid.end # prev.end => Resizing

\* a set outside the bounds, after which the written coordinate is still outside
C23_Witness ==
    /\ ret.op = "set"
    /\ ~InBounds(prev, ret.coord)
    /\ get(grid, ret.coord) # grid.empty
    /\ ~InBounds(grid, ret.coord)
    /\ Ordered(grid.start, grid.end)

\* the coordinates with an explicit entry in the map
Stored(g) == DOMAIN g.points

\* C24: right after from_coords(start, end, empty) the grid's start and end are
\* the arguments as given, and the stored entries are exactly the keys start
\* and end, each mapped to empty (one entry when start = end); no other
\* coordinate has an entry.
C24_FromCoordsStoresTheCorners ==
    calls = 0 =>
        /\ grid.start = ctor.start
        /\ grid.end = ctor.end
        /\ grid.empty = ctor.empty
        /\ Stored(grid) = {ctor.start, ctor.end}
        /\ \A k \in Stored(grid) : grid.points[k] = ctor.empty
        /\ Cardinality(Stored(grid)) = IF ctor.start = ctor.end THEN 1 ELSE 2

\* a grid just built with its corners given in the reverse order on x
C24_Witness ==
    /\ calls = 0
    /\ ret.op = "from_coords"
    /\ ctor.start.x > ctor.end.x
    /\ grid.start.x > grid.end.x
    /\ Cardinality(Stored(grid)) = 2

\* every stored key lies inside [start, end]
KeysInBounds(g) == \A k \in Stored(g) : InBounds(g, k)

\* C25: a grid constructed with start <= end holds its stored keys inside
\* [start, end], and every call other than set keeps it so: from a grid with
\* start <= end whose keys are all inside the bounds, a call of set_bounded,
\* set_resize or any reading operation leads to a grid with start <= end
\* whose keys are all inside the bounds.
C25_KeysStayInBoundsWithoutSet ==
    /\ Ordered(ctor.start, ctor.end) => KeysInBounds(grid)
    /\ [][(/\ Ordered(grid.start, grid.end)
           /\ KeysInBounds(grid)
           /\ ret'.op # "set")
              => Ordered(grid'.start, grid'.end) /\ KeysInBounds(grid')]_vars

\* two set_resize calls, each outside the bounds it found, on a grid built with
\* start <= end: four stored keys, all inside the bounds
C25_Witness ==
    /\ Ordered(ctor.start, ctor.end)
    /\ calls = 2
    /\ Len(log) = 2
    /\ ret.op = "set_resize"
    /\ ~InBounds(prev, ret.coord)
    /\ ~InBounds(from_coords(ctor.start, ctor.end, ctor.empty), log[1].coord)
    /\ InBounds(prev, log[1].coord)
    /\ Cardinality(Stored(grid)) = 4
    /\ KeysInBounds(grid)

\* C26: get_resize(c) on a coordinate c outside [start, end] that was never
\* written returns empty, leaves the bounds including c, and leaves the stored
\* entries as they were (no entry is created for c), so get of every
\* coordinate returns after the call what it returned before it.
C26_GetResizeOutsideReadsEmpty ==
    (ret.op = "get_resize" /\ ~InBounds(prev, ret.coord) /\ WritesTo(ret.coord) = {}) =>
        /\ ret.res = prev.empty
        /\ InBounds(grid, ret.coord)
        /\ grid.start # prev.start \/ grid.end # prev.end
        /\ grid.points = prev.points
        /\ grid.empty = prev.empty
        /\ \A k \in Coords : get(grid, k) = get(prev, k)

\* C26 for grids constructed with start <= end: on such a grid get_resize(c)
\* on a never-written coordinate c outside [start, end] returns empty, leaves
\* the bounds including c and the stored entries as they were, and get of
\* every coordinate returns what it returned before.
C26_GetResizeOutsideReadsEmptyOrdered ==
    Ordered(ctor.start, ctor.end) => C26_GetResizeOutsideReadsEmpty

\* a get_resize outside the bounds, after a write of a value other than empty
\* elsewhere: the bounds moved, the coordinate has no entry, the write is read back
C26_Witness ==
    /\ Ordered(ctor.start, ctor.end)
    /\ ret.op = "get_resize"
    /\ ~InBounds(prev, ret.coord)
    /\ WritesTo(ret.coord) = {}
    /\ ret.coord \notin Stored(grid)
    /\ Len(log) = 1
    /\ get(grid, log[1].coord) # grid.empty
    /\ grid.end # prev.end
    /\ ret.res = grid.empty

\* start and end of a grid
Bounds(g) == <<g.start, g.end>>

\* the smallest rectangle containing [g.start, g.end], a and b
BoundingBox(g, a, b) ==
    <<Coordinate(Min2(g.start.x, Min2(a.x, b.x)), Min2(g.start.y, Min2(a.y, b.y))),
      Coordinate(Max2(g.end.x, Max2(a.x, b.x)), Max2(g.end.y, Max2(a.y, b.y)))>>

\* C27: on a grid with start <= end, resizing to a and then to b leaves the
\* same start and end as resizing to b and then to a, namely the corners of the
\* bounding box of the old rectangle, a and b; and resizing to the same
\* coordinate a second time changes nothing. Stated at every resizing call,
\* with b the coordinate of the call and a any coordinate.
C27_ResizeIsOrderIndependent ==
    (Resizing /\ Ordered(prev.start, prev.end)) =>
        /\ Bounds(grid) = Bounds(check_and_resize(prev, ret.coord))
        /\ Bounds(check_and_resize(grid, ret.coord)) = Bounds(grid)
        /\ \A a \in Coords :
              /\ Bounds(check_and_resize(grid, a)) = BoundingBox(prev, ret.coord, a)
              /\ Bounds(check_and_resize(check_and_resize(prev, a), ret.coord))
                    = Bounds(check_and_resize(grid, a))

\* two resizing calls in a row, the first growing the grid at its end and the
\* second at its start, the result being the bounding box taken in either order
C27_Witness ==
    /\ Ordered(ctor.start, ctor.end)
    /\ calls = 2
    /\ Resizing
    /\ prev.start = ctor.start
    /\ prev.end # ctor.end
    /\ grid.start # prev.start
    /\ grid.end = prev.end
    /\ \E a \in Coords :
          /\ prev.end = Coordinate(Max2(ctor.end.x, a.x), Max2(ctor.end.y, a.y))
          /\ Bounds(grid) = BoundingBox(ctor, a, ret.coord)
          /\ a # ret.coord

\* the number of items a line from s to e has: max(|dx|, |dy|) + 1
LineLength(s, e) == Max2(abs(e.x - s.x), abs(e.y - s.y)) + 1

\* C28: for every start and end, coords() terminates after yielding exactly
\* max(|dx|, |dy|) + 1 items: no call of next() fails, the number of items
\* yielded never exceeds that length, next() returns None only when exactly
\* that many were yielded, and the first call always yields (so start = end
\* yields exactly one item).
C28_LineYieldsItsLength ==
    /\ ~Panicked
    /\ Len(out) <= LineLength(line.start, line.end)
    /\ Exhausted => Len(out) = LineLength(line.start, line.end)
    /\ Exhausted /\ line.start = line.end => Len(out) = 1

\* C29: once next() has returned None, the next call returns None again and
\* leaves first, current and end as they are, so every later call does too;
\* and no call of next() changes the end field, which stays the line's end.
C29_NoneIsFinal ==
    [][/\ iter'.end = iter.end
       /\ iter'.end = line.end
       /\ last' = "None" => next_i32(iter') = Returns([item |-> <<"None">>, iter |-> iter'])
       /\ Exhausted => (last' = "None" /\ iter' = iter /\ out' = out)]_vars

\* an iterator that returned None after walking at least two steps, in the
\* build that wraps, on a line whose difference does not fit in i32
C29_Witness ==
    /\ Exhausted
    /\ Len(out) >= 3
    /\ ~iter.first
    /\ iter.current = iter.end
    /\ iter.end = line.end
    /\ next_i32(iter) = Returns([item |-> <<"None">>, iter |-> iter])
    /\ ~overflow_checks
    /\ ~InI32(line.end.x - line.start.x)

\* grids that differ from g in bounds and in contents: the grid as constructed,
\* g after one more set_resize at c, and a grid with g's corners exchanged
OtherGrids(g, c) ==
    {from_coords(ctor.start, ctor.end, ctor.empty),
     set_resize(g, c, "b"),
     from_coords(g.end, g.start, "b")}

\* C30: coords_in_area neither depends on the grid nor modifies it: the call
\* leaves the grid as it was, its result is a sequence of coordinates (never a
\* bounds error) and is the sequence the same centre, distance and filter
\* produce on grids with other bounds and contents.
C30_AreaIgnoresTheGrid ==
    ret.op = "coords_in_area" =>
        /\ grid = prev
        /\ ret.res \in Seq(AreaWindow)
        /\ \A g \in OtherGrids(grid, ret.coord) :
              coords_in_area(g, ret.coord, ret.val.distance, ret.val.filter) = ret.res

\* a call on a grid that was written and resized since its construction,
\* yielding five coordinates of which one lies outside [start, end]
C30_Witness ==
    /\ ret.op = "coords_in_area"
    /\ calls = 2
    /\ Len(log) = 1
    /\ get(grid, log[1].coord) # grid.empty
    /\ grid.end # ctor.end
    /\ Ordered(grid.start, grid.end)
    /\ Len(ret.res) = 5
    /\ \E i \in 1..Len(ret.res) : ~InBounds(grid, ret.res[i])
    /\ \E i \in 1..Len(ret.res) : InBounds(grid, ret.res[i])

====
